---------------------------- MODULE Spec2Model ----------------------------
(***************************************************************************)
(* Model of "Vector3D part 2 surfaces and perspective.py": the frame loop  *)
(* of VectorViewer (run / rotate / display / terminate / pause) and the    *)
(* per-object pipeline of VectorObject (increaseAngles, setRotationMatrix, *)
(* rotate, transform, updateSurfaceZPos, sortSurfacesByZPos).              *)
(*                                                                         *)
(* Numbers.  The program computes in IEEE doubles.  The model computes in  *)
(* exact integers and exact fractions [num, den]: orientation angles and   *)
(* angular velocities are whole multiples of 90 degrees, for which sine    *)
(* and cosine are -1, 0 or 1, so every matrix entry and every world-space  *)
(* coordinate is an integer; a float quotient a / b is kept as the         *)
(* fraction a over b and compared by cross-multiplication.                 *)
(***************************************************************************)
EXTENDS Integers, Sequences, FiniteSets, TLC

VARIABLES
    running,        \* VectorViewer.running
    paused,         \* VectorViewer.paused
    VectorObjs,     \* VectorViewer.VectorObjs: the objects, in insertion order
    lockCount,      \* nesting depth of screen.lock(); get_locked() is lockCount > 0
    events,         \* what is left of the batch returned by pygame.event.get()
    pc,             \* position of the program: setup, check, events, done, crashed, angles
    calls,          \* presentation calls made in the current loop iteration, in order
    iter,           \* loop iterations started (steps taken, under SpecAngles)
    advances,       \* passes of VectorViewer.rotate() executed so far
    runningIters    \* iterations whose signal processing ended in Running

vars == <<running, paused, VectorObjs, lockCount, events, pc, calls, iter,
          advances, runningIters>>

(***************************************************************************)
(* Bounds of the model.                                                    *)
(***************************************************************************)
MaxIters == 3       \* loop iterations explored
MaxBatch == 2       \* events delivered by one pygame.event.get()
MaxSteps == 3       \* increaseAngles calls explored under SpecAngles

(***************************************************************************)
(* Program constants.                                                      *)
(***************************************************************************)
width == 1280
height == 800
zScale == 896                       \* width * 0.7
midScreen == <<width \div 2, height \div 2>>
backgroundColor == <<0, 0, 0>>

(***************************************************************************)
(* Small helpers.                                                          *)
(***************************************************************************)
RECURSIVE SumSeq(_)
SumSeq(s) == IF s = <<>> THEN 0 ELSE Head(s) + SumSeq(Tail(s))

Reverse(s) == [i \in 1..Len(s) |-> s[Len(s) + 1 - i]]

\* a / b of the program, kept exact
Frac(a, b) == [num |-> a, den |-> b]
FracLess(a, b) == a.num * b.den < b.num * a.den      \* both den > 0
FracEq(a, b) == a.num * b.den = b.num * a.den

\* numpy indexing a[node]: 0-based, a negative index counts from the end
IndexOk(node, n) == node >= -n /\ node < n
At(a, node) == a[(IF node < 0 THEN node + Len(a) ELSE node) + 1]

(***************************************************************************)
(* VectorObjectSurface and VectorObject.                                   *)
(***************************************************************************)
NewSurface ==
    [idnum |-> 0, nodes |-> <<>>, color |-> <<0, 0, 0>>, edgeWidth |-> 0,
     zpos |-> Frac(0, 1)]

setZPos(surface, zpos) == [surface EXCEPT !.zpos = zpos]

NewVectorObject(name) ==
    [name         |-> name,          \* identity of the Python object
     position     |-> <<0, 0, 0, 1>>,
     angles       |-> <<0, 0, 0>>,
     rotationMatrix |-> <<<<0, 0, 0>>, <<0, 0, 0>>, <<0, 0, 0>>>>,
     rotateSpeed  |-> <<0, 0, 0>>,
     nodes        |-> <<>>,
     rotatedNodes |-> <<>>,
     transNodes   |-> <<>>,
     surfaces     |-> <<>>]

setPosition(o, position) == [o EXCEPT !.position = position]

setRotateSpeed(o, angles) == [o EXCEPT !.rotateSpeed = angles]

addNodes(o, node_array) ==
    [o EXCEPT !.nodes = [i \in 1..Len(node_array) |-> node_array[i] \o <<1>>],
              !.rotatedNodes = node_array]

addSurfaces(o, idnum, color, edgeWidth, node_list) ==
    [o EXCEPT !.surfaces =
        Append(@, [NewSurface EXCEPT !.idnum = idnum, !.color = color,
                                     !.edgeWidth = edgeWidth,
                                     !.nodes = node_list])]

\* one component of increaseAngles with the bound test off by one
wrapAngleStrict(a) ==
    LET b == IF a > 360 THEN a - 360 ELSE a
    IN  IF b < 0 THEN b + 360 ELSE b

\* one component of increaseAngles: the two if statements, in order
wrapAngle(a) ==
    LET b == IF a >= 360 THEN a - 360 ELSE a
    IN  IF b < 0 THEN b + 360 ELSE b

increaseAngles(o) ==
    [o EXCEPT !.angles =
        [i \in 1..3 |-> wrapAngle(o.angles[i] + o.rotateSpeed[i])]]

\* np.sin / np.cos of angle * angleScale, for whole multiples of 90 degrees
Sin(a) == CASE a % 360 = 0 -> 0 [] a % 360 = 90 -> 1
            [] a % 360 = 180 -> 0 [] a % 360 = 270 -> -1
Cos(a) == CASE a % 360 = 0 -> 1 [] a % 360 = 90 -> 0
            [] a % 360 = 180 -> -1 [] a % 360 = 270 -> 0

setRotationMatrix(o) ==
    LET sx == Sin(o.angles[1])  sy == Sin(o.angles[2])  sz == Sin(o.angles[3])
        cx == Cos(o.angles[1])  cy == Cos(o.angles[2])  cz == Cos(o.angles[3])
    IN  [o EXCEPT !.rotationMatrix =
          << <<cy * cz,                -1 * cy * sz,             sy>>,
             <<cx * sz + cz * sx * sy, cx * cz - sx * sy * sz,   -1 * cy * sx>>,
             <<sx * sz - cx * cz * sy, cz * sx + cx * sy * sz,   cx * cy>> >>]

\* VectorObject.rotate: np.dot(nodes, vstack(rotationMatrix, position[0:3]))
rotateObj(o) ==
    LET matrix == o.rotationMatrix \o <<SubSeq(o.position, 1, 3)>>
    IN  [o EXCEPT !.rotatedNodes =
          [n \in 1..Len(o.nodes) |->
             [j \in 1..3 |->
                SumSeq([i \in 1..4 |-> o.nodes[n][i] * matrix[i][j]])]]]

\* VectorObject.transform: (x, y) * zScale / z + midScreen, as fractions
transform(o, zs, mid) ==
    [o EXCEPT !.transNodes =
       [n \in 1..Len(o.rotatedNodes) |->
          [k \in 1..2 |->
             Frac(o.rotatedNodes[n][k] * zs + mid[k] * o.rotatedNodes[n][3],
                  o.rotatedNodes[n][3])]]]

(***************************************************************************)
(* Depth of the surfaces and the painter's order.                          *)
(***************************************************************************)
\* updateSurfaceZPos from surface k on.  rotatedNodes[node, 2] raises
\* IndexError for an index outside the array, and the division raises
\* ZeroDivisionError for a surface without nodes; the surfaces before the
\* one that raises keep their new zpos.
RECURSIVE updateZFrom(_, _)
updateZFrom(o, k) ==
    IF k > Len(o.surfaces) THEN [obj |-> o, raised |-> FALSE]
    ELSE LET s == o.surfaces[k]
             n == Len(o.rotatedNodes)
         IN  IF (\E i \in DOMAIN s.nodes : ~IndexOk(s.nodes[i], n))
                \/ Len(s.nodes) = 0
             THEN [obj |-> o, raised |-> TRUE]
             ELSE LET zsum == SumSeq([i \in DOMAIN s.nodes |->
                                        At(o.rotatedNodes, s.nodes[i])[3]])
                      zpos == Frac(zsum, Len(s.nodes))
                  IN  updateZFrom([o EXCEPT !.surfaces[k] = setZPos(s, zpos)],
                                  k + 1)

updateSurfaceZPos(o) == updateZFrom(o, 1)

\* insert s into a list ordered by zpos descending, behind its equals
RECURSIVE insertDesc(_, _)
insertDesc(L, s) ==
    IF L = <<>> THEN <<s>>
    ELSE IF FracLess(Head(L).zpos, s.zpos) THEN <<s>> \o L
    ELSE <<Head(L)>> \o insertDesc(Tail(L), s)

RECURSIVE sortDescFrom(_, _, _)
sortDescFrom(L, k, acc) ==
    IF k > Len(L) THEN acc ELSE sortDescFrom(L, k + 1, insertDesc(acc, L[k]))

\* insert s into a list ordered by zpos ascending, behind its equals
RECURSIVE insertAsc(_, _)
insertAsc(L, s) ==
    IF L = <<>> THEN <<s>>
    ELSE IF FracLess(s.zpos, Head(L).zpos) THEN <<s>> \o L
    ELSE <<Head(L)>> \o insertAsc(Tail(L), s)

RECURSIVE sortAscFrom(_, _, _)
sortAscFrom(L, k, acc) ==
    IF k > Len(L) THEN acc ELSE sortAscFrom(L, k + 1, insertAsc(acc, L[k]))

\* sort ascending, then reverse the list: the equals come out reversed
listSortThenReverse(L) == Reverse(sortAscFrom(L, 1, <<>>))

\* list.sort(key = zpos) without reverse=True: the nearest surface first
listSortAscending(L) == sortAscFrom(L, 1, <<>>)

\* list.sort(key = zpos, reverse=True): descending and stable
listSortReverse(L) == sortDescFrom(L, 1, <<>>)

sortSurfacesByZPos(o) == [o EXCEPT !.surfaces = listSortReverse(@)]

(***************************************************************************)
(* VectorViewer.rotate and VectorViewer.display.                           *)
(***************************************************************************)
rotate(objs) ==
    [i \in 1..Len(objs) |->
        transform(rotateObj(setRotationMatrix(increaseAngles(objs[i]))),
                  zScale, midScreen)]

\* a call on the presentation surface; locked is get_locked() when it is made
Call(op, obj, s, points, locked) ==
    [op |-> op, obj |-> obj, idnum |-> s.idnum, color |-> s.color,
     edgeWidth |-> s.edgeWidth, points |-> points, locked |-> locked]

ScreenCall(op, color, locked) ==
    [op |-> op, obj |-> "screen", idnum |-> -1, color |-> color,
     edgeWidth |-> 0, points |-> <<>>, locked |-> locked]

\* lines 98-100 for one surface: the node list, aalines, polygon.
\* transNodes[node] raises IndexError for an index outside the array,
\* aalines raises ValueError for fewer than 2 points and polygon for fewer
\* than 3.
drawSurface(o, s, lc) ==
    IF \E i \in DOMAIN s.nodes : ~IndexOk(s.nodes[i], Len(o.transNodes))
    THEN [calls |-> <<>>, raised |-> TRUE]
    ELSE LET node_list == [i \in DOMAIN s.nodes |-> At(o.transNodes, s.nodes[i])]
         IN  IF Len(node_list) < 2 THEN [calls |-> <<>>, raised |-> TRUE]
             ELSE IF Len(node_list) < 3
             THEN [calls |-> <<Call("aalines", o.name, s, node_list, lc > 0)>>,
                   raised |-> TRUE]
             ELSE [calls |-> <<Call("aalines", o.name, s, node_list, lc > 0),
                               Call("polygon", o.name, s, node_list, lc > 0)>>,
                   raised |-> FALSE]

RECURSIVE drawSurfacesFrom(_, _, _, _)
drawSurfacesFrom(o, k, lc, cs) ==
    IF k > Len(o.surfaces) THEN [calls |-> cs, raised |-> FALSE]
    ELSE LET d == drawSurface(o, o.surfaces[k], lc)
         IN  IF d.raised THEN [calls |-> cs \o d.calls, raised |-> TRUE]
             ELSE drawSurfacesFrom(o, k + 1, lc, cs \o d.calls)

\* the body of the for loop of display(), lines 91-100, from object k on
RECURSIVE displayFrom(_, _, _, _)
displayFrom(objs, k, lc, cs) ==
    IF k > Len(objs) THEN [objs |-> objs, calls |-> cs, raised |-> FALSE]
    ELSE LET u == updateSurfaceZPos(objs[k])
         IN  IF u.raised
             THEN [objs |-> [objs EXCEPT ![k] = u.obj], calls |-> cs,
                   raised |-> TRUE]
             ELSE LET o == sortSurfacesByZPos(u.obj)
                      d == drawSurfacesFrom(o, 1, lc, cs)
                      objs2 == [objs EXCEPT ![k] = o]
                  IN  IF d.raised
                      THEN [objs |-> objs2, calls |-> d.calls, raised |-> TRUE]
                      ELSE displayFrom(objs2, k + 1, lc, d.calls)

\* display() walking VectorObjs from the last object added to the first
displayLastFirst(objs, lc) ==
    LET locked == lc + 1
        d == displayFrom(Reverse(objs), 1, locked,
                         <<ScreenCall("lock", <<0, 0, 0>>, lc > 0),
                           ScreenCall("fill", backgroundColor, locked > 0)>>)
    IN  IF d.raised
        THEN [objs |-> Reverse(d.objs), calls |-> d.calls,
              lockCount |-> locked, raised |-> TRUE]
        ELSE [objs |-> Reverse(d.objs),
              calls |-> d.calls
                        \o <<ScreenCall("unlock", <<0, 0, 0>>, locked > 0)>>,
              lockCount |-> locked - 1, raised |-> FALSE]

\* display() clearing the screen before it takes the lock
displayFillFirst(objs, lc) ==
    LET locked == lc + 1
        d == displayFrom(objs, 1, locked,
                         <<ScreenCall("fill", backgroundColor, lc > 0),
                           ScreenCall("lock", <<0, 0, 0>>, lc > 0)>>)
    IN  IF d.raised
        THEN [objs |-> d.objs, calls |-> d.calls, lockCount |-> locked,
              raised |-> TRUE]
        ELSE [objs |-> d.objs,
              calls |-> d.calls
                        \o <<ScreenCall("unlock", <<0, 0, 0>>, locked > 0)>>,
              lockCount |-> locked - 1, raised |-> FALSE]

\* display(): lock, fill, the objects in insertion order, unlock.  Nothing
\* catches an exception, so a raise leaves display() with the lock held.
display(objs, lc) ==
    LET locked == lc + 1
        d == displayFrom(objs, 1, locked,
                         <<ScreenCall("lock", <<0, 0, 0>>, lc > 0),
                           ScreenCall("fill", backgroundColor, locked > 0)>>)
    IN  IF d.raised
        THEN [objs |-> d.objs, calls |-> d.calls, lockCount |-> locked,
              raised |-> TRUE]
        ELSE [objs |-> d.objs,
              calls |-> d.calls
                        \o <<ScreenCall("unlock", <<0, 0, 0>>, locked > 0)>>,
              lockCount |-> locked - 1, raised |-> FALSE]

\* lines 56-57: while self.screen.get_locked(): self.screen.unlock()
RECURSIVE releaseLocks(_)
releaseLocks(lc) ==
    IF lc > 0
    THEN <<ScreenCall("unlock", <<0, 0, 0>>, TRUE)>> \o releaseLocks(lc - 1)
    ELSE <<>>

(***************************************************************************)
(* The objects a setup can build (lines 239-269 build the cube).           *)
(***************************************************************************)
CubeNodes ==
    << << 100,  100,  100>>, << 100,  100, -100>>,
       << 100, -100, -100>>, << 100, -100,  100>>,
       <<-100,  100,  100>>, <<-100,  100, -100>>,
       <<-100, -100, -100>>, <<-100, -100,  100>> >>

Cube ==
    LET o0 == addNodes(NewVectorObject("cube"), CubeNodes)
        o1 == addSurfaces(o0, 0, <<255, 255, 255>>, 0, <<0, 3, 2, 1>>)
        o2 == addSurfaces(o1, 1, <<255, 255, 255>>, 0, <<4, 5, 6, 7>>)
        o3 == addSurfaces(o2, 2, <<150, 150, 150>>, 0, <<0, 1, 5, 4>>)
        o4 == addSurfaces(o3, 3, <<150, 150, 150>>, 0, <<3, 7, 6, 2>>)
        o5 == addSurfaces(o4, 4, <<80, 80, 80>>, 0, <<0, 4, 7, 3>>)
        o6 == addSurfaces(o5, 5, <<80, 80, 80>>, 0, <<1, 2, 6, 5>>)
    IN  setPosition(o6, <<0, 0, 1500, 1>>)

\* a square plate with a front and a back surface over the same four nodes
Plate ==
    LET o0 == addNodes(NewVectorObject("plate"),
                       << <<-100, -100, 0>>, <<100, -100, 0>>,
                          <<100, 100, 0>>, <<-100, 100, 0>> >>)
        o1 == addSurfaces(o0, 0, <<200, 0, 0>>, 0, <<0, 1, 2, 3>>)
        o2 == addSurfaces(o1, 1, <<0, 0, 200>>, 0, <<3, 2, 1, 0>>)
    IN  setPosition(o2, <<0, 0, 1450, 1>>)

\* a surface of two nodes: aalines draws it, polygon raises ValueError
Sliver ==
    LET o0 == addNodes(NewVectorObject("sliver"),
                       << <<-100, 0, 0>>, <<100, 0, 0>> >>)
        o1 == addSurfaces(o0, 0, <<0, 200, 0>>, 0, <<0, 1>>)
    IN  setPosition(o1, <<0, 0, 1000, 1>>)

Catalogue == {Cube, Plate, Sliver}

\* setRotateSpeed arguments: at rest, turning, and faster than a turn a frame
SceneSpeeds == {<<0, 0, 0>>, <<90, 270, 0>>, <<450, 0, -450>>}

(***************************************************************************)
(* Events and the key table.                                               *)
(***************************************************************************)
Event(type, key) == [type |-> type, key |-> key]

\* what pygame.event.get() can deliver: a close request, key presses with
\* and without an entry in key_to_function, and some other event
EventKinds ==
    {Event("QUIT", "none"), Event("KEYDOWN", "K_ESCAPE"),
     Event("KEYDOWN", "K_SPACE"), Event("KEYDOWN", "K_a"),
     Event("KEYUP", "K_SPACE")}

Batches == UNION {[1..n -> EventKinds] : n \in 0..MaxBatch}

\* pause() that only ever sets the flag
pauseSetOnly(flags) == [flags EXCEPT !.paused = TRUE]

terminate(flags) == [flags EXCEPT !.running = FALSE]

pause(flags) ==
    IF flags.paused = TRUE THEN [flags EXCEPT !.paused = FALSE]
    ELSE [flags EXCEPT !.paused = TRUE]

key_to_function(key, flags) ==
    CASE key = "K_ESCAPE" -> terminate(flags)
      [] key = "K_SPACE"  -> pause(flags)

KeysBound == {"K_ESCAPE", "K_SPACE"}

\* lines 41-45 for one event
dispatch(event, flags) ==
    IF event.type = "QUIT" THEN [flags EXCEPT !.running = FALSE]
    ELSE IF event.type = "KEYDOWN"
    THEN IF event.key \in KeysBound THEN key_to_function(event.key, flags)
         ELSE flags
    ELSE flags

\* the state of the orchestrator, from the two flags
State ==
    IF ~running THEN "Stopped" ELSE IF paused THEN "Paused" ELSE "Running"

(***************************************************************************)
(* The program.                                                            *)
(***************************************************************************)
Init ==
    /\ running = TRUE
    /\ paused = FALSE
    /\ VectorObjs = <<>>
    /\ lockCount = 0
    /\ events = <<>>
    /\ pc = "setup"
    /\ calls = <<>>
    /\ iter = 0
    /\ advances = 0
    /\ runningIters = 0

\* setup: build an object, give it a speed, vv.addVectorObj(vobj)
addVectorObj ==
    /\ pc = "setup"
    /\ \E o \in Catalogue, speed \in SceneSpeeds :
          /\ \A i \in DOMAIN VectorObjs : VectorObjs[i].name # o.name
          /\ VectorObjs' = Append(VectorObjs, setRotateSpeed(o, speed))
    /\ UNCHANGED <<running, paused, lockCount, events, pc, calls, iter,
                   advances, runningIters>>

\* vv.run() is called
StartRun ==
    /\ pc = "setup"
    /\ pc' = "check"
    /\ UNCHANGED <<running, paused, VectorObjs, lockCount, events, calls,
                   iter, advances, runningIters>>

\* while self.running holds: the next iteration polls the events
PollEvents ==
    /\ pc = "check"
    /\ running
    /\ iter < MaxIters
    /\ \E batch \in Batches : events' = batch
    /\ pc' = "events"
    /\ iter' = iter + 1
    /\ calls' = <<>>
    /\ UNCHANGED <<running, paused, VectorObjs, lockCount, advances,
                   runningIters>>

\* while self.running fails: pygame.display.quit()
LoopExit ==
    /\ pc = "check"
    /\ ~running
    /\ pc' = "done"
    /\ UNCHANGED <<running, paused, VectorObjs, lockCount, events, calls,
                   iter, advances, runningIters>>

\* the body of the for loop over the polled events, for the next event
HandleEvent ==
    /\ pc = "events"
    /\ events # <<>>
    /\ LET f == dispatch(Head(events), [running |-> running, paused |-> paused])
       IN  /\ running' = f.running
           /\ paused' = f.paused
    /\ events' = Tail(events)
    /\ UNCHANGED <<VectorObjs, lockCount, pc, calls, iter, advances,
                   runningIters>>

\* if self.paused == True: pygame.time.wait(100)
PausedWait ==
    /\ pc = "events"
    /\ events = <<>>
    /\ paused = TRUE
    /\ pc' = "check"
    /\ UNCHANGED <<running, paused, VectorObjs, lockCount, events, calls,
                   iter, advances, runningIters>>

\* else: rotate(), display(), release the locks, flip(), clock.tick()
Frame ==
    /\ pc = "events"
    /\ events = <<>>
    /\ paused # TRUE
    /\ LET d == display(rotate(VectorObjs), lockCount)
       IN  /\ VectorObjs' = d.objs
           /\ IF d.raised
              THEN /\ calls' = calls \o d.calls
                   /\ lockCount' = d.lockCount
                   /\ pc' = "crashed"
              ELSE /\ calls' = calls \o d.calls \o releaseLocks(d.lockCount)
                                \o <<ScreenCall("flip", <<0, 0, 0>>, FALSE)>>
                   /\ lockCount' = 0
                   /\ pc' = "check"
    /\ advances' = advances + 1
    /\ runningIters' = runningIters + (IF State = "Running" THEN 1 ELSE 0)
    /\ UNCHANGED <<running, paused, events, iter>>

Next ==
    \/ addVectorObj
    \/ StartRun
    \/ PollEvents
    \/ LoopExit
    \/ HandleEvent
    \/ PausedWait
    \/ Frame

Spec == Init /\ [][Next]_vars

(***************************************************************************)
(* increaseAngles on its own, over every start and velocity of the grid.   *)
(***************************************************************************)
StartAngles == {0, 90, 180, 270}
Velocities == {-450, -360, -270, -90, 0, 90, 270, 360, 450}

InitAngles ==
    /\ running = TRUE
    /\ paused = FALSE
    /\ \E a \in [1..3 -> StartAngles], v \in [1..3 -> Velocities] :
          VectorObjs = <<[setRotateSpeed(NewVectorObject("obj"), v)
                            EXCEPT !.angles = a]>>
    /\ lockCount = 0
    /\ events = <<>>
    /\ pc = "angles"
    /\ calls = <<>>
    /\ iter = 0
    /\ advances = 0
    /\ runningIters = 0

StepIncreaseAngles ==
    /\ pc = "angles"
    /\ iter < MaxSteps
    /\ VectorObjs' = [VectorObjs EXCEPT ![1] = increaseAngles(@)]
    /\ iter' = iter + 1
    /\ UNCHANGED <<running, paused, lockCount, events, pc, calls, advances,
                   runningIters>>

NextAngles == StepIncreaseAngles

SpecAngles == InitAngles /\ [][NextAngles]_vars

(***************************************************************************)
(* Vocabulary of the properties.                                           *)
(***************************************************************************)
InRange(angles) == \A i \in 1..3 : angles[i] >= 0 /\ angles[i] < 360

BoundedSpeed(v) == \A i \in 1..3 : v[i] > -360 /\ v[i] < 360

\* the loop iteration's pass ran to its end: flip() was called
FrameDone == pc = "check" /\ calls # <<>>

Ops(cs) == [i \in DOMAIN cs |-> cs[i].op]

\* the polygon calls of a call sequence, as <<object, surface id>>
Draws(cs) ==
    LET pick == SelectSeq(cs, LAMBDA c : c.op = "polygon")
    IN  [i \in DOMAIN pick |-> <<pick[i].obj, pick[i].idnum>>]

\* position of a surface's polygon call among the polygon calls
DrawPos(cs, obj, idnum) ==
    CHOOSE k \in DOMAIN Draws(cs) : Draws(cs)[k] = <<obj, idnum>>

RECURSIVE Flatten(_)
Flatten(ss) == IF ss = <<>> THEN <<>> ELSE Head(ss) \o Flatten(Tail(ss))

\* the surfaces of the objects, object after object, as <<object, surface id>>
SurfaceOrder(objs) ==
    Flatten([i \in DOMAIN objs |->
               [k \in DOMAIN objs[i].surfaces |->
                  <<objs[i].name, objs[i].surfaces[k].idnum>>]])

\* depth of a surface: the mean world-space Z of its nodes
Depth(o, s) ==
    Frac(SumSeq([i \in DOMAIN s.nodes |-> At(o.rotatedNodes, s.nodes[i])[3]]),
         Len(s.nodes))

NonIncreasing(surfaces) ==
    \A k \in 1..(Len(surfaces) - 1) :
        ~FracLess(surfaces[k].zpos, surfaces[k + 1].zpos)

\* position of the surface with this id in a surface list
PosOf(surfaces, idnum) ==
    CHOOSE k \in DOMAIN surfaces : surfaces[k].idnum = idnum

Unsorted(s) == [s EXCEPT !.zpos = Frac(0, 1)]

\* new is old reordered: the same surfaces but for zpos
IsPermutation(old, new) ==
    /\ Len(old) = Len(new)
    /\ \A k \in DOMAIN new :
          /\ \E j \in DOMAIN old : old[j].idnum = new[k].idnum
          /\ Unsorted(old[PosOf(old, new[k].idnum)]) = Unsorted(new[k])
    /\ \A j, k \in DOMAIN new : new[j].idnum = new[k].idnum => j = k

\* surfaces of equal depth stand in new in the order they had in old
TiesKeepOrder(old, new) ==
    \A j, k \in DOMAIN new :
        (j < k /\ FracEq(new[j].zpos, new[k].zpos))
            => PosOf(old, new[j].idnum) < PosOf(old, new[k].idnum)

(***************************************************************************)
(* C1.  After a call of increaseAngles from an orientation in [0,360),     *)
(* each angle lies in [0,360), whatever the angular velocity.              *)
(***************************************************************************)
C1_AnglesStayInRange ==
    (pc = "angles" /\ iter = 1) => InRange(VectorObjs[1].angles)

C2_AdvancesMatchRunningIterations ==
    /\ (pc = "check" /\ paused) => calls = <<>>
    /\ advances = runningIters

(***************************************************************************)
(* C3.  The orchestrator state changes only while an event is handled, and *)
(* only so: K_SPACE takes Running to Paused and Paused to Running, K_ESCAPE*)
(* or QUIT takes any state to Stopped, every other event leaves the state; *)
(* once running is false it stays false, and the loop exits at its next    *)
(* check.                                                                  *)
(***************************************************************************)
C3_StateTransitions ==
    [][/\ (pc = "events" /\ events # <<>>) =>
            LET e == Head(events)
            IN  CASE State = "Stopped" -> State' = "Stopped"
                  [] State # "Stopped" /\ e = Event("KEYDOWN", "K_SPACE") ->
                        State' = (IF State = "Running" THEN "Paused"
                                  ELSE "Running")
                  [] State # "Stopped" /\ e \in {Event("KEYDOWN", "K_ESCAPE"),
                                                 Event("QUIT", "none")} ->
                        State' = "Stopped"
                  [] OTHER -> State' = State
       /\ ~(pc = "events" /\ events # <<>>) => State' = State
       /\ ~running => ~running'
       /\ (pc = "check" /\ ~running) => pc' = "done"]_vars

\* a batch in which a pause was undone by a second K_SPACE, with more to come
C3_Witness ==
    /\ pc = "events"
    /\ iter >= 2
    /\ State = "Running"
    /\ Len(events) = 1
    /\ Head(events) = Event("KEYDOWN", "K_ESCAPE")
    /\ advances = 0

(***************************************************************************)
(* C4 as stated.  The draw order of a frame does not depend on the order   *)
(* in which the objects were added: the scene holding the same objects in  *)
(* the opposite insertion order produces the same sequence of draw calls.  *)
(***************************************************************************)
C4_DrawOrderIgnoresInsertion ==
    FrameDone => Draws(display(Reverse(VectorObjs), 0).calls) = Draws(calls)

(***************************************************************************)
(* C4 amended.  The objects are drawn in the order they were added, and    *)
(* within each object the surfaces are drawn by depth recomputed that      *)
(* frame, the most distant first.                                          *)
(***************************************************************************)
C4_DrawOrderInsertionThenDepth ==
    FrameDone =>
        /\ Draws(calls) = SurfaceOrder(VectorObjs)
        /\ \A i \in DOMAIN VectorObjs :
              /\ NonIncreasing(VectorObjs[i].surfaces)
              /\ \A k \in DOMAIN VectorObjs[i].surfaces :
                    VectorObjs[i].surfaces[k].zpos
                        = Depth(VectorObjs[i], VectorObjs[i].surfaces[k])

\* a frame of the plate and then the rotating cube
C4_Witness ==
    /\ FrameDone
    /\ Len(VectorObjs) = 2
    /\ VectorObjs[1].name = "plate"
    /\ VectorObjs[2].name = "cube"
    /\ VectorObjs[2].angles = <<90, 270, 0>>

(***************************************************************************)
(* C5.  On every frame, after updateSurfaceZPos and sortSurfacesByZPos an  *)
(* object's surface list is a permutation of the list before, ordered by   *)
(* depth non-increasing, with surfaces of equal depth in their order of    *)
(* before.                                                                 *)
(***************************************************************************)
C5_StableDepthSort ==
    [][(advances' = advances + 1 /\ pc' = "check") =>
         \A i \in DOMAIN VectorObjs :
            /\ IsPermutation(VectorObjs[i].surfaces, VectorObjs'[i].surfaces)
            /\ NonIncreasing(VectorObjs'[i].surfaces)
            /\ \A k \in DOMAIN VectorObjs'[i].surfaces :
                  VectorObjs'[i].surfaces[k].zpos
                      = Depth(VectorObjs'[i], VectorObjs'[i].surfaces[k])
            /\ TiesKeepOrder(VectorObjs[i].surfaces, VectorObjs'[i].surfaces)
      ]_vars

\* the cube after two frames: its list was reordered, with four equal depths
C5_Witness ==
    /\ FrameDone
    /\ advances = 2
    /\ Len(VectorObjs) = 1
    /\ VectorObjs[1].name = "cube"
    /\ VectorObjs[1].rotateSpeed = <<90, 270, 0>>
    /\ \E j, k \in DOMAIN VectorObjs[1].surfaces :
          /\ j < k
          /\ VectorObjs[1].surfaces[j].idnum > VectorObjs[1].surfaces[k].idnum
    /\ \E j, k \in DOMAIN VectorObjs[1].surfaces :
          /\ j # k
          /\ FracEq(VectorObjs[1].surfaces[j].zpos,
                    VectorObjs[1].surfaces[k].zpos)

(***************************************************************************)
(* C6.  The lock taken at the start of display() is released on every exit *)
(* path: when a call in display() raises, the surface is unlocked before   *)
(* control leaves the pass.                                                *)
(***************************************************************************)
C6_LockReleasedOnError ==
    pc = "crashed" => lockCount = 0

StaticCubeFrame ==
    /\ FrameDone
    /\ Len(VectorObjs) = 1
    /\ VectorObjs[1].name = "cube"
    /\ VectorObjs[1].rotateSpeed = <<0, 0, 0>>

C8_StaticCube ==
    StaticCubeFrame =>
        LET o == VectorObjs[1]
            polys == SelectSeq(calls, LAMBDA c : c.op = "polygon")
            lines == SelectSeq(calls, LAMBDA c : c.op = "aalines")
        IN  /\ o.position = <<0, 0, 1500, 1>>
            /\ o.angles = <<0, 0, 0>>
            /\ Len(o.surfaces) = 6
            /\ {o.surfaces[k].idnum : k \in 1..6} = 0..5
            /\ Len(polys) = 6 /\ Len(lines) = 6
            /\ \A k \in 1..6 :
                  /\ polys[k].idnum = o.surfaces[k].idnum
                  /\ Len(polys[k].points) = 4
                  /\ Len(lines[k].points) = 4
                  /\ \A q \in 1..4 : Len(polys[k].points[q]) = 2
            /\ o.surfaces[PosOf(o.surfaces, 4)].nodes = <<0, 4, 7, 3>>
            /\ o.surfaces[PosOf(o.surfaces, 5)].nodes = <<1, 2, 6, 5>>
            /\ PosOf(o.surfaces, 5) > PosOf(o.surfaces, 4)
            /\ DrawPos(calls, "cube", 5) > DrawPos(calls, "cube", 4)

C8_Witness == StaticCubeFrame /\ advances = 1

(***************************************************************************)
(* C9.  An orientation advance, a draw or a present happens only in a loop *)
(* iteration whose state is Running once its signals are processed.        *)
(***************************************************************************)
C9_PassOnlyWhenRunning ==
    [][(advances' > advances \/ Len(calls') > Len(calls))
          => State = "Running"]_vars
==========================================================================
